---- MODULE Spec2Model ----
\* The WebAuthn relying-party engine of src/lib.rs: the struct WebAuthn with its
\* two maps, and the operations generate_challenge, get_credentials, register
\* and verify.  Every method that changes the engine takes `&mut self`, so two
\* calls on one engine never overlap: each call is one atomic action.
EXTENDS Integers, Sequences, FiniteSets, TLC

\* ------------------------------------------------------------------ bounds
\* Number of distinct values the random challenge generator can draw.
NChal == 2
\* Largest signature counter an authenticator presents.
MaxCounter == 2
\* Number of steps taken on one engine: calls, and passages of time between them.
MaxCalls == 3
\* Longest time that passes between two calls, in units of the challenge TTL's clock.
MaxTick == 2

\* --------------------------------------------------------------- constants
CHALLENGE_SIZE_BYTES == 32

\* The configured challenge TTL, in clock units: a challenge of age <= ChallengeTTL
\* is within it.
ChallengeTTL == 1

Usernames == {"alice", "bob"}
\* register stores under this literal key, whoever the ceremony is for.
StoreKey == "xxx"
Keys == Usernames \cup {StoreKey}
RawIds == {"cred1", "cred2"}
Origins == {"https://example.com", "https://evil.com"}
Types == {"webauthn.create", "webauthn.get"}

\* ------------------------------------------------------------------- bytes
Rep(n, b) == [i \in 1..n |-> b]
BE16(n) == <<(n \div 256) % 256, n % 256>>
BE32(n) == <<(n \div 16777216) % 256, (n \div 65536) % 256, (n \div 256) % 256, n % 256>>
\* byteorder::BigEndian::read_u16 / read_u32 of a slice of exactly 2 / 4 bytes
read_u16(b) == b[1] * 256 + b[2]
read_u32(b) == ((b[1] * 256 + b[2]) * 256 + b[3]) * 256 + b[4]
\* flags & (1 << k) != 0
Bit(flags, k) == (flags \div (2 ^ k)) % 2 = 1
\* Rust slices, 0-based and half-open: v[a..b] and v[a..]; each panics when the
\* range does not lie inside v.
SliceOk(v, a, b) == a <= b /\ b <= Len(v)
Slice(v, a, b) == SubSeq(v, a + 1, b)
SliceFromOk(v, a) == a <= Len(v)
SliceFrom(v, a) == SubSeq(v, a + 1, Len(v))
IndexOk(v, i) == i < Len(v)

\* challenge::Challenge::new(size): `size` random bytes.  The generator's
\* outcomes are the NChal byte strings Rep(size, 1) .. Rep(size, NChal).
Challenge_new(size) == {Rep(size, b) : b \in 1..NChal}
\* Option::None of the challenges map (no entry for the username).
NoChallenge == <<>>

\* ---------------------------------------------------- authenticator data
\* impl From<&[u8]> for AttestedCredentialData: TRUE when no index or slice
\* of the conversion panics.
AttestedCredentialData_ok(v) ==
    /\ SliceOk(v, 16, 18)
    /\ SliceFromOk(v, 18 + read_u16(Slice(v, 16, 18)))
    /\ SliceOk(v, 0, 16)
    /\ SliceOk(v, 18, 18 + read_u16(Slice(v, 16, 18)))

AttestedCredentialData_from(v) ==
    LET credentialid_length == read_u16(Slice(v, 16, 18))
    IN  [aaguid |-> Slice(v, 0, 16),
         credentialid_length |-> credentialid_length,
         credentialid |-> Slice(v, 18, 18 + credentialid_length)]

\* impl From<&[u8]> for DecodedAuthData: the attested credential data is
\* converted from v[37..] whatever the flags say.
DecodedAuthData_ok(v) ==
    /\ IndexOk(v, 32)
    /\ SliceOk(v, 0, 32)
    /\ SliceOk(v, 33, 37)
    /\ SliceFromOk(v, 37)
    /\ AttestedCredentialData_ok(SliceFrom(v, 37))

DecodedAuthData_from(v) ==
    LET flags == v[32 + 1]
    IN  [rpid_hash |-> Slice(v, 0, 32),
         user_present |-> Bit(flags, 0),
         user_verified |-> Bit(flags, 2),
         attested_credential_data_included |-> Bit(flags, 6),
         extension_data_included |-> Bit(flags, 7),
         counter |-> read_u32(Slice(v, 33, 37)),
         attested_credential_data |-> AttestedCredentialData_from(SliceFrom(v, 37))]

\* ------------------------------------------------------------------ inputs
\* Authenticator data as an authenticator builds it: 32 bytes of RP ID hash,
\* the flags byte, the big-endian counter, then AAGUID, credential-ID length,
\* credential ID and the COSE key bytes.
MkAuthData(flags, counter, idLen, keyLen) ==
    Rep(32, 7) \o <<flags>> \o BE32(counter) \o Rep(16, 9) \o BE16(idLen)
        \o Rep(idLen, 3) \o Rep(keyLen, 5)
\* user present (bit 0) + attested credential data included (bit 6)
FlagsUPAT == 2 ^ 6 + 2 ^ 0
\* user present only
FlagsUP == 2 ^ 0
GoodAuthData(c) == MkAuthData(FlagsUPAT, c, 2, 3)
WellFormedAuthData == {GoodAuthData(c) : c \in 0..MaxCounter}
\* Inputs an authenticator would not send: empty, 36 bytes, exactly 37 bytes
\* with bit 6 clear, and a declared credential-ID length that overruns.
TruncatedAuthData ==
    {<<>>,
     SubSeq(GoodAuthData(1), 1, 36),
     SubSeq(MkAuthData(FlagsUP, 1, 0, 0), 1, 37),
     SubSeq(MkAuthData(FlagsUPAT, 1, 4, 0), 1, 57)}
AuthDataInputs == WellFormedAuthData \cup TruncatedAuthData

\* A String field of a request is modelled by what the decoders make of it:
\* whether base64::decode accepts it, whether the parser of the decoded bytes
\* (serde_json / serde_cbor) accepts them, and the value parsed.
ClientData(t, c, o) == [type_ |-> t, challenge |-> c, origin |-> o]
GoodClientData == ClientData("webauthn.create", Rep(CHALLENGE_SIZE_BYTES, 1), "https://example.com")
ClientDataJson(b, j, cd) == [base64 |-> b, json |-> j, client_data |-> cd]
ClientDataJsonInputs ==
    {ClientDataJson(TRUE, TRUE, ClientData(t, c, o)) :
        t \in Types, c \in Challenge_new(CHALLENGE_SIZE_BYTES), o \in Origins}
    \cup {ClientDataJson(FALSE, FALSE, GoodClientData),
          ClientDataJson(TRUE, FALSE, GoodClientData)}

Attestation(f, a) == [fmt |-> f, auth_data |-> a]
AttestationObject(b, c, at) == [base64 |-> b, cbor |-> c, attestation |-> at]
GoodAttestationObject(c) == AttestationObject(TRUE, TRUE, Attestation("none", GoodAuthData(c)))
AttestationObjectInputs ==
    {AttestationObject(TRUE, TRUE, Attestation("none", a)) : a \in AuthDataInputs}
    \cup {AttestationObject(FALSE, FALSE, Attestation("none", <<>>)),
          AttestationObject(TRUE, FALSE, Attestation("none", <<>>))}

RegisterRequest(rid, ao, cdj) ==
    [id |-> rid, raw_id |-> rid,
     response |-> [attestation_object |-> ao, client_data_json |-> cdj],
     type_ |-> "public-key"]
RegisterRequestInputs ==
    {RegisterRequest(rid, GoodAttestationObject(1), cdj) :
        rid \in RawIds, cdj \in ClientDataJsonInputs}
    \cup {RegisterRequest("cred1", ao, ClientDataJson(TRUE, TRUE, GoodClientData)) :
            ao \in AttestationObjectInputs}

\* authenticator_data and signature are base64 Strings verify never decodes.
LoginRequest(ad, cdj, sig) ==
    [response |-> [authenticator_data |-> ad, client_data_json |-> cdj, signature |-> sig]]
GoodLoginClientData ==
    ClientData("webauthn.get", Rep(CHALLENGE_SIZE_BYTES, 1), "https://example.com")
LoginAuthData(c) == [base64 |-> TRUE, bytes |-> MkAuthData(FlagsUP, c, 0, 0)]
LoginRequestInputs ==
    {LoginRequest(LoginAuthData(c), ClientDataJson(TRUE, TRUE, GoodLoginClientData), "valid") :
        c \in 0..MaxCounter}
    \cup {LoginRequest(LoginAuthData(MaxCounter), cdj, "valid") : cdj \in ClientDataJsonInputs}
    \cup {LoginRequest(LoginAuthData(MaxCounter),
                       ClientDataJson(TRUE, TRUE, GoodLoginClientData), "invalid")}

NoRequest == [response |-> <<>>]
NoAuthData == [counter |-> 0]

\* ------------------------------------------------------------------- state
VARIABLES
    relying_party,      \* WebAuthn.relying_party
    challenges,         \* WebAuthn.challenges: username -> pending challenge
    credentials,        \* WebAuthn.credentials: key -> Vec<Credential>
    aborted,            \* a call panicked: the thread that held the engine is gone
    call,               \* the last call: operation, ceremony user, request, result
    ncalls,             \* number of steps taken: calls and passages of time
    superseded,         \* per user, the value HashMap::insert last replaced
    answered,           \* per user, successful ceremonies answering the pending challenge
    decoded_auth_data,  \* the DecodedAuthData of the register call that stored the credential
    replay,             \* the result of the call before the last, when it was the same
                        \* ceremony (operation, user, request) as the last; else "none"
    age                 \* per user, the time passed since the pending challenge was issued

vars == <<relying_party, challenges, credentials, aborted, call, ncalls,
          superseded, answered, decoded_auth_data, replay, age>>

\* The fields of WebAuthn and of Credential, and the ranges of the bookkeeping.
TypeOK ==
    /\ relying_party \in Origins
    /\ \A u \in Usernames :
        challenges[u] \in Challenge_new(CHALLENGE_SIZE_BYTES) \cup {NoChallenge}
    /\ \A k \in Keys : \A i \in 1..Len(credentials[k]) : credentials[k][i].id \in RawIds
    /\ aborted \in BOOLEAN
    /\ call.op \in {"new", "generate_challenge", "get_credentials", "register", "verify",
                    "tick"}
    /\ call.ret \in {"ok", "true", "false", "panic"}
    /\ ncalls \in 0..MaxCalls
    /\ \A u \in Usernames : answered[u] \in 0..MaxCalls
    /\ decoded_auth_data.counter \in 0..MaxCounter
    /\ replay \in {"none", "true", "false"}
    /\ \A u \in Usernames : age[u] \in 0..(MaxCalls * MaxTick)

\* WebAuthn::new
Init ==
    /\ relying_party = "https://example.com"
    /\ challenges = [u \in Usernames |-> NoChallenge]
    /\ credentials = [k \in Keys |-> <<>>]
    /\ aborted = FALSE
    /\ call = [op |-> "new", user |-> "", req |-> NoRequest, ret |-> "ok", out |-> <<>>, stored |-> 0]
    /\ ncalls = 0
    /\ superseded = [u \in Usernames |-> NoChallenge]
    /\ answered = [u \in Usernames |-> 0]
    /\ decoded_auth_data = NoAuthData
    /\ replay = "none"
    /\ age = [u \in Usernames |-> 0]

CanCall == ~aborted /\ ncalls < MaxCalls
\* The recorded call c ran the ceremony `op` for `username` on the request `req`.
SameCeremony(c, op, username, req) == c.op = op /\ c.user = username /\ c.req = req

\* WebAuthn::generate_challenge
generate_challenge(username) ==
    /\ CanCall
    /\ \E challenge \in Challenge_new(CHALLENGE_SIZE_BYTES) :
        /\ challenges' = [challenges EXCEPT ![username] = challenge]
        /\ superseded' = [superseded EXCEPT ![username] = challenges[username]]
        /\ answered' = [answered EXCEPT ![username] = 0]
        /\ call' = [op |-> "generate_challenge", user |-> username,
                    req |-> NoRequest, ret |-> "ok", out |-> challenge, stored |-> 0]
        /\ replay' = "none"
    /\ age' = [age EXCEPT ![username] = 0]
    /\ ncalls' = ncalls + 1
    /\ UNCHANGED <<relying_party, credentials, aborted, decoded_auth_data>>

\* Time passes between two calls: the engine keeps no clock and runs no timer,
\* so nothing of it changes; every pending challenge grows older by d.
Tick(d) ==
    /\ CanCall
    /\ age' = [u \in Usernames |->
                IF challenges[u] # NoChallenge THEN age[u] + d ELSE age[u]]
    /\ call' = [op |-> "tick", user |-> "", req |-> NoRequest, ret |-> "ok",
                out |-> <<>>, stored |-> 0]
    /\ replay' = "none"
    /\ ncalls' = ncalls + 1
    /\ UNCHANGED <<relying_party, challenges, credentials, aborted, superseded,
                   answered, decoded_auth_data>>

\* WebAuthn::get_credentials: the list under the key, or the empty list.
get_credentials_of(creds, username) == creds[username]

get_credentials(username) ==
    /\ CanCall
    /\ call' = [op |-> "get_credentials", user |-> username, req |-> NoRequest,
                ret |-> "ok", out |-> get_credentials_of(credentials, username),
                stored |-> 0]
    /\ replay' = "none"
    /\ ncalls' = ncalls + 1
    /\ UNCHANGED <<relying_party, challenges, credentials, aborted, superseded,
                   answered, decoded_auth_data, age>>

\* WebAuthn::register, its result: "panic" where an expect or a slice index
\* fails, "false" and "true" as returned.  The comparisons of the challenge
\* and of the origin (lines 176-181) have empty bodies and decide nothing.
register_result(req) ==
    LET client_data_json == req.response.client_data_json
        attestation_object == req.response.attestation_object
    IN  IF ~client_data_json.base64 THEN "panic"
        ELSE IF ~client_data_json.json THEN "panic"
        ELSE IF client_data_json.client_data.type_ # "webauthn.create" THEN "false"
        ELSE IF ~attestation_object.base64 THEN "panic"
        ELSE IF ~attestation_object.cbor THEN "panic"
        ELSE IF ~DecodedAuthData_ok(attestation_object.attestation.auth_data) THEN "panic"
        ELSE "true"

\* register with the insert moved ahead of the type check: a request of the
\* wrong type is stored although the call returns false.
register_credentials_eager(creds, req, ret) ==
    IF ret # "panic"
    THEN [creds EXCEPT ![StoreKey] = <<[id |-> req.raw_id]>>]
    ELSE creds

\* The credentials map after register: self.credentials.insert("xxx", vec![..])
\* is the last statement before `true`.
register_credentials(creds, req, ret) ==
    IF ret = "true"
    THEN [creds EXCEPT ![StoreKey] = <<[id |-> req.raw_id]>>]
    ELSE creds

\* `username` is the user the ceremony is run for, whose challenge the client
\* answered; the request carries no username and register never reads one.
register(username, req) ==
    /\ CanCall
    /\ LET ret == register_result(req)
           client_data == req.response.client_data_json.client_data
       IN  /\ credentials' = register_credentials(credentials, req, ret)
           /\ decoded_auth_data' =
                IF ret = "true"
                THEN DecodedAuthData_from(req.response.attestation_object.attestation.auth_data)
                ELSE decoded_auth_data
           /\ aborted' = (ret = "panic")
           /\ answered' =
                IF /\ ret = "true"
                   /\ challenges[username] # NoChallenge
                   /\ client_data.challenge = challenges[username]
                THEN [answered EXCEPT ![username] = @ + 1]
                ELSE answered
           /\ call' = [op |-> "register", user |-> username, req |-> req,
                       ret |-> ret, out |-> <<>>, stored |-> 0]
           /\ replay' = IF SameCeremony(call, "register", username, req)
                        THEN call.ret ELSE "none"
    /\ ncalls' = ncalls + 1
    /\ UNCHANGED <<relying_party, challenges, superseded, age>>

\* verify with its last line returning true: every login whose client data
\* parses is accepted, whatever counter it presents.
verify_result_accepting(req) ==
    LET client_data_json == req.response.client_data_json
    IN  IF ~client_data_json.base64 THEN "panic"
        ELSE IF ~client_data_json.json THEN "panic"
        ELSE "true"

\* WebAuthn::verify, its result: the client data is decoded and parsed, then
\* the function returns false.
verify_result(req) ==
    LET client_data_json == req.response.client_data_json
    IN  IF ~client_data_json.base64 THEN "panic"
        ELSE IF ~client_data_json.json THEN "panic"
        ELSE "false"

\* verify persisting the presented counter on every return, with no comparison
\* against the stored one.
verify_counter_overwrite(stored, req, ret) ==
    IF ret # "panic"
    THEN read_u32(Slice(req.response.authenticator_data.bytes, 33, 37))
    ELSE stored

\* The stored counter after verify: the function assigns to no field of self.
verify_counter(stored, req, ret) == stored

verify(username, req) ==
    /\ CanCall
    /\ LET ret == verify_result(req)
           client_data == req.response.client_data_json.client_data
       IN  /\ aborted' = (ret = "panic")
           /\ decoded_auth_data' =
                [decoded_auth_data EXCEPT !.counter = verify_counter(@, req, ret)]
           /\ answered' =
                IF /\ ret = "true"
                   /\ challenges[username] # NoChallenge
                   /\ client_data.challenge = challenges[username]
                THEN [answered EXCEPT ![username] = @ + 1]
                ELSE answered
           /\ call' = [op |-> "verify", user |-> username, req |-> req,
                       ret |-> ret, out |-> <<>>, stored |-> decoded_auth_data.counter]
           /\ replay' = IF SameCeremony(call, "verify", username, req)
                        THEN call.ret ELSE "none"
    /\ ncalls' = ncalls + 1
    /\ UNCHANGED <<relying_party, challenges, credentials, superseded, age>>

Next ==
    \/ \E username \in Usernames : generate_challenge(username)
    \/ \E username \in Keys : get_credentials(username)
    \/ \E username \in Usernames, req \in RegisterRequestInputs : register(username, req)
    \/ \E username \in Usernames, req \in LoginRequestInputs : verify(username, req)
    \/ \E d \in 1..MaxTick : Tick(d)

Spec == Init /\ [][Next]_vars

\* ------------------------------------------------------- reading a step
\* This step is a call of `op`.
Called(op) == ncalls' = ncalls + 1 /\ call'.op = op
\* The parsed client data of a recorded register or verify call.
ClientDataOf(c) == c.req.response.client_data_json.client_data
ClientDataParsed(c) ==
    c.req.response.client_data_json.base64 /\ c.req.response.client_data_json.json
\* The recorded call presents the bytes of the pending challenge of its user.
Answers(c, pending) ==
    /\ ClientDataParsed(c)
    /\ pending[c.user] # NoChallenge
    /\ ClientDataOf(c).challenge = pending[c.user]
\* A registration that passes every check of the ceremony other than the
\* challenge's: well-formed fields, type, origin, attested credential data.
GoodRegistration(c) ==
    /\ ClientDataParsed(c)
    /\ ClientDataOf(c).type_ = "webauthn.create"
    /\ ClientDataOf(c).origin = relying_party
    /\ c.req.response.attestation_object.base64
    /\ c.req.response.attestation_object.cbor
    /\ c.req.response.attestation_object.attestation.auth_data \in WellFormedAuthData
\* The one credential the engine holds, and the counter it was registered with.
HasCredential == credentials[StoreKey] # <<>>
StoredCounter == decoded_auth_data.counter
PresentedCounter(c) == read_u32(Slice(c.req.response.authenticator_data.bytes, 33, 37))
\* A login that passes every check other than the counter's.
GoodLogin(c, pending) ==
    /\ Answers(c, pending)
    /\ ClientDataOf(c).type_ = "webauthn.get"
    /\ ClientDataOf(c).origin = relying_party
    /\ c.req.response.signature = "valid"
    /\ Bit(c.req.response.authenticator_data.bytes[33], 0)

\* ------------------------------------------------------------------ claims

\* C1: one issued challenge yields exactly one successful consumption: the
\* first ceremony answering the pending challenge of a user succeeds, and a
\* later one answering the same bytes, with no new generate_challenge for
\* that user in between, does not.
C1_ConsumedExactlyOnce ==
    [][Called("register") /\ Answers(call', challenges) /\ GoodRegistration(call')
         => (call'.ret = "true") = (answered[call'.user] = 0)]_vars

\* C2: two ceremonies for the same user that run back to back, in either
\* order, on the same pending challenge never both succeed.
C2_AtMostOneConsumer ==
    [][/\ call.op = "register"
       /\ Called("register")
       /\ call'.user = call.user
       /\ Answers(call, challenges)
       /\ Answers(call', challenges)
       => ~(call.ret = "true" /\ call'.ret = "true")]_vars

\* C3: a register call for a user with no pending challenge (never issued,
\* or already answered by a successful ceremony) does not succeed and stores
\* no credential.
C3_NoPendingChallengeFails ==
    [][/\ Called("register")
       /\ \/ challenges[call'.user] = NoChallenge
          \/ answered[call'.user] >= 1
       => call'.ret # "true" /\ credentials' = credentials]_vars

\* C4: the pending challenge of a user is the one issued last, and a ceremony
\* answering the bytes of the challenge it replaced never succeeds.
C4_OnlyLastChallengePending ==
    [][/\ Called("generate_challenge") => challenges'[call'.user] = call'.out
       /\ (/\ Called("register")
           /\ ClientDataParsed(call')
           /\ superseded[call'.user] # NoChallenge
           /\ superseded[call'.user] # challenges[call'.user]
           /\ ClientDataOf(call').challenge = superseded[call'.user])
          => call'.ret # "true"]_vars

\* C5: with a stored nonzero counter C, a login passing all other checks fails
\* when the presented counter is <= C and succeeds when it is > C, and then
\* the stored counter is the presented one.
C5_CounterMonotonicity ==
    [][/\ Called("verify")
       /\ HasCredential
       /\ StoredCounter > 0
       /\ GoodLogin(call', challenges)
       => IF PresentedCounter(call') <= StoredCounter
          THEN call'.ret # "true"
          ELSE call'.ret = "true" /\ StoredCounter' = PresentedCounter(call')]_vars

C7_FailureLeavesStores ==
    [][(Called("register") \/ Called("verify")) /\ call'.ret # "true"
         => /\ credentials' = credentials
            /\ decoded_auth_data' = decoded_auth_data
            /\ \A u \in Usernames :
                \/ challenges'[u] = challenges[u]
                \/ u = call'.user /\ challenges'[u] = NoChallenge]_vars

\* A register call returned false with a credential stored and a challenge
\* pending for its user.
C7_Witness ==
    /\ call.op = "register"
    /\ call.ret = "false"
    /\ HasCredential
    /\ challenges[call.user] # NoChallenge

\* C8: a register or verify ceremony whose client data origin is not the
\* relying party's does not succeed, stores no credential and updates no counter.
C8_OriginMismatchFails ==
    [][/\ Called("register") \/ Called("verify")
       /\ ClientDataParsed(call')
       /\ ClientDataOf(call').origin # relying_party
       => /\ call'.ret # "true"
          /\ credentials' = credentials
          /\ decoded_auth_data' = decoded_auth_data]_vars

\* C9: a register ceremony whose client data challenge is not the pending
\* challenge of its user never succeeds.
C9_ChallengeMismatchFails ==
    [][/\ Called("register")
       /\ ClientDataParsed(call')
       /\ challenges[call'.user] # NoChallenge
       /\ ClientDataOf(call').challenge # challenges[call'.user]
       => call'.ret # "true"]_vars

\* C10: no call removes or replaces a stored credential; a successful register
\* for user u appends the credential with id = rawId to u's list and changes
\* no other list; get_credentials(u) returns u's list.
IsPrefix(s, t) == Len(s) <= Len(t) /\ SubSeq(t, 1, Len(s)) = s
C10_CredentialsAppendOnly ==
    [][/\ \A k \in Keys : IsPrefix(credentials[k], credentials'[k])
       /\ Called("register") /\ call'.ret = "true"
            => credentials' = [credentials EXCEPT ![call'.user] =
                                 Append(@, [id |-> call'.req.raw_id])]
       /\ Called("get_credentials") => call'.out = credentials[call'.user]]_vars

\* The recorded register call got as far as converting the authenticator data
\* (line 192): everything before it decoded, and the type was right.
ReachedParser(c) ==
    /\ ClientDataParsed(c)
    /\ ClientDataOf(c).type_ = "webauthn.create"
    /\ c.req.response.attestation_object.base64
    /\ c.req.response.attestation_object.cbor
AuthDataOf(c) == c.req.response.attestation_object.attestation.auth_data

\* C11: register and verify return a result for every input: no call ends in
\* a panic, and the engine stays usable.
C11_NeverPanics ==
    /\ call.op \in {"register", "verify"} => call.ret \in {"true", "false"}
    /\ ~aborted

\* C12: converting authenticator data shorter than 37 bytes is an error that
\* is returned (the call fails), never a panic.
C12_ShortAuthDataRejected ==
    call.op = "register" /\ ReachedParser(call) /\ Len(AuthDataOf(call)) < 37
        => call.ret = "false"

\* C13: a register call that got to the challenge step and returned, whatever
\* it returned, leaves its user without a pending challenge.
C13_ChallengeGoneAfterConsumption ==
    [][/\ Called("register")
       /\ ClientDataParsed(call')
       /\ ClientDataOf(call').type_ = "webauthn.create"
       /\ call'.ret # "panic"
       /\ challenges[call'.user] # NoChallenge
       => challenges'[call'.user] = NoChallenge]_vars

C15_ZeroCounterSkipsCheck ==
    [][/\ Called("verify")
       /\ HasCredential
       /\ GoodLogin(call', challenges)
       /\ StoredCounter = 0 \/ PresentedCounter(call') = 0
       => call'.ret = "true"]_vars

\* C16: the client data checks run in the order type, challenge, origin: a
\* register with a wrong type fails and stores nothing; with the right type
\* and a wrong challenge it fails whatever the origin; with the right type and
\* challenge and a wrong origin it fails.
C16_ClientDataChecksInOrder ==
    [][Called("register") /\ ClientDataParsed(call')
         => LET cd == ClientDataOf(call')
                wrongType == cd.type_ # "webauthn.create"
                wrongChallenge == ~Answers(call', challenges)
                wrongOrigin == cd.origin # relying_party
            IN  /\ wrongType => call'.ret = "false" /\ credentials' = credentials
                /\ ~wrongType /\ wrongChallenge => call'.ret = "false"
                /\ ~wrongType /\ ~wrongChallenge /\ wrongOrigin => call'.ret = "false"]_vars

\* C17: a login while no credential is stored fails as a returned result and
\* leaves every pending challenge in place, with the engine usable for the
\* following ceremony.
C17_UnknownCredentialKeepsChallenge ==
    [][Called("verify") /\ ~HasCredential
         => call'.ret = "false" /\ challenges' = challenges /\ ~aborted']_vars

\* C18: a pending challenge changes only by a generate_challenge or a ceremony
\* of its user, never by time passing; a register answering it with everything
\* else in order succeeds when its age is within the TTL, and when its age
\* exceeds the TTL the register fails and the challenge is removed.
C18_ExpiryAtConsumption ==
    [][/\ \A u \in Usernames :
            challenges'[u] # challenges[u]
                => call'.user = u /\ call'.op \in {"generate_challenge", "register", "verify"}
       /\ (/\ Called("register")
           /\ Answers(call', challenges)
           /\ GoodRegistration(call')
           /\ answered[call'.user] = 0)
          => IF age[call'.user] <= ChallengeTTL
             THEN call'.ret = "true"
             ELSE call'.ret = "false" /\ challenges'[call'.user] = NoChallenge]_vars

\* C19: attested credential data is read only when flag bit 6 is set: a
\* register whose authenticator data is 37 or more bytes with bit 6 clear does
\* not panic, and one with bit 6 set and a remainder shorter than 18 + L bytes
\* fails with a returned error.
C19_AttestedDataOnlyWhenFlagged ==
    call.op = "register" /\ ReachedParser(call) /\ Len(AuthDataOf(call)) >= 37
        => LET v == AuthDataOf(call)
               rest == SliceFrom(v, 37)
           IN  IF ~Bit(v[33], 6)
               THEN call.ret # "panic"
               ELSE (Len(rest) < 18 \/ Len(rest) < 18 + read_u16(Slice(rest, 16, 18)))
                        => call.ret = "false"

\* C20: generate_challenge(u) changes no credential list and no pending
\* challenge but u's; a register ceremony for u changes no credential list but
\* u's and no pending challenge of another user.
C20_OtherUsersUntouched ==
    [][/\ Called("generate_challenge")
            => /\ credentials' = credentials
               /\ \A v \in Usernames \ {call'.user} : challenges'[v] = challenges[v]
       /\ Called("register")
            => /\ \A k \in Keys \ {call'.user} : credentials'[k] = credentials[k]
               /\ \A v \in Usernames \ {call'.user} : challenges'[v] = challenges[v]]_vars

====
